---- MODULE Spec2Model ----
(***************************************************************************)
(* The `runnable!` macro of src/src/util.rs: every demonstration of the    *)
(* playground is expanded by it into a `#[test] fn` that prints a start    *)
(* marker, takes a start Instant, runs the block, takes an end Instant and *)
(* prints an end marker with the elapsed milliseconds.  The test functions *)
(* are invoked by the test harness, one thread per test, and share the     *)
(* monotonic clock and the standard output.                                *)
(***************************************************************************)
EXTENDS Integers, Sequences, FiniteSets, TLC

\* ---- bounds ----------------------------------------------------------------
\* The clock advances in steps of TickNanos nanoseconds, MaxTicks times at most.
TickNanos == 500000
MaxTicks == 2
MaxClock == MaxTicks * TickNanos

\* The identifiers given to runnable! ($name) and what a block ($exp) may do.
Names == {"alpha", "beta"}
LogicKinds == {"returns", "panics", "diverges"}

NoTime == -1

\* $exp stands where a statement stands and fn $name() declares no return
\* type: the value of the block and the value of the function are of type ().
Unit == "()"
BlockValues == {Unit}
NoValue == "none"

\* ---- Num (unit_testing.rs) and sum_even_numbers (errors.rs) --------------------
\* usize is modelled UsizeBits wide; u8 has its 8 bits.
UsizeBits == 4
UsizeMax == 2^UsizeBits - 1
U8Max == 255

\* The operands of the chain of try_sub calls are 0 .. ChainMax.
ChainMax == 5

\* What a call comes to: a value (Num, Ok, Err, Some, None) or a panic with
\* its message.
NoRes == [tag |-> "none", val |-> 0, msg |-> ""]
Value(tag, v) == [tag |-> tag, val |-> v, msg |-> ""]
Panic(msg) == [tag |-> "panic", val |-> 0, msg |-> msg]

\* a + b in an unsigned type with maximum `max`: with overflow checks (the
\* dev and test profiles) an overflow panics, without them it wraps.
checked_arith_add(a, b, max, checks) ==
    IF a + b <= max THEN Value("int", a + b)
    ELSE IF checks THEN Panic("attempt to add with overflow")
    ELSE Value("int", (a + b) % (max + 1))

\* a - b in an unsigned type with maximum `max`, likewise.
checked_arith_sub(a, b, max, checks) ==
    IF b <= a THEN Value("int", a - b)
    ELSE IF checks THEN Panic("attempt to subtract with overflow")
    ELSE Value("int", (a - b) % (max + 1))

\* A mutant of add: the first operand is added to itself.
add_self(self, other, checks) ==
    LET r == checked_arith_add(self, self, UsizeMax, checks)
    IN  IF r.tag = "panic" THEN r ELSE Value("Num", r.val)

\* pub fn add(&self, other: &Self) -> Self { Num(self.0 + other.0) }
add(self, other, checks) ==
    LET r == checked_arith_add(self, other, UsizeMax, checks)
    IN  IF r.tag = "panic" THEN r ELSE Value("Num", r.val)

\* A mutant of sub: the operands are swapped.
sub_swapped(self, other, checks) ==
    LET r == checked_arith_sub(other, self, UsizeMax, checks)
    IN  IF r.tag = "panic" THEN r ELSE Value("Num", r.val)

\* fn sub(&self, other: &Self) -> Self { Num(self.0 - other.0) }
sub(self, other, checks) ==
    LET r == checked_arith_sub(self, other, UsizeMax, checks)
    IN  IF r.tag = "panic" THEN r ELSE Value("Num", r.val)

\* usize::checked_sub: None on overflow, in every build.
checked_sub(a, b) ==
    IF b <= a THEN Value("Some", a - b) ELSE Value("None", 0)

\* fn try_sub(&self, other: &Self) -> Result<Self, ()> {
\*     self.0.checked_sub(other.0).map(|v| Num(v)).ok_or(()) }
try_sub(self, other) ==
    LET c == checked_sub(self, other)
    IN  IF c.tag = "Some" THEN Value("Ok", c.val) ELSE Value("Err", 0)

\* fn sum_even_numbers(x: u8, y: u8) -> Option<u8> {
\*     if x % 2 == 0 && y % 2 == 0 { Some(x + y) } else { None } }
sum_even_numbers(x, y, checks) ==
    IF x % 2 = 0 /\ y % 2 = 0
    THEN LET r == checked_arith_add(x, y, U8Max, checks)
         IN  IF r.tag = "panic" THEN r ELSE Value("Some", r.val)
    ELSE Value("None", 0)

\* An Err that carries a message.
ErrMsg(msg) == [tag |-> "Err", val |-> 0, msg |-> msg]

\* fn sum_even_numbers(x: u8, y: u8) -> Result<u8, String> {
\*     if x % 2 == 0 && y % 2 == 0 { Ok(x + y) }
\*     else { Err(format!("illegal inputs: an input is not even: x={x} y={y}")) } }
sum_even_numbers_result(x, y, checks) ==
    IF x % 2 = 0 /\ y % 2 = 0
    THEN LET r == checked_arith_add(x, y, U8Max, checks)
         IN  IF r.tag = "panic" THEN r ELSE Value("Ok", r.val)
    ELSE ErrMsg("illegal inputs: an input is not even: x=" \o ToString(x)
                \o " y=" \o ToString(y))

\* impl SumEven for u8 { fn sum(self, other) { sum_even_numbers(self, other) } }
\* of the `options` block and of the `results` block.
sum(op, self, other, checks) ==
    IF op = "sum5_even_option" THEN sum_even_numbers(self, other, checks)
    ELSE sum_even_numbers_result(self, other, checks)

\* The operands sum5_even is called with: those of the example (0, 2, 4, 11,
\* 6) and one that brings a sum beyond u8.
Sum5Operands == {0, 2, 4, 6, 11, 200}

\* ---- head and get (errors.rs) ----------------------------------------------------
\* The arrays have up to MaxLen elements, taken from Elems.
MaxLen == 3
Elems == {"a", "b"}
Arrays == UNION {[1..n -> Elems] : n \in 0..MaxLen}

\* enum VectorError { EmptyVector, NotFound(usize) }
EmptyVector == [variant |-> "EmptyVector", index |-> 0]
NotFound(index) == [variant |-> "NotFound", index |-> index]

\* &array[pos]: the reference to the element at position pos, counted from 0.
Ref(array, pos) == [pos |-> pos, elem |-> array[pos + 1]]

\* fn head<A>(array: &[A]) -> Result<&A, VectorError> {
\*     if array.len() > 0 { Ok(&array[0]) } else { Err(VectorError::EmptyVector) } }
head(array) ==
    IF Len(array) > 0 THEN Value("Ok", Ref(array, 0))
    ELSE Value("Err", EmptyVector)

\* for x in array.iter() { if current == index { return Ok(x) }
\*                         else { current += 1; } }
\* Err(VectorError::NotFound(index))
\* with `current` elements of the array already passed.
RECURSIVE get_loop(_, _, _)
get_loop(array, index, current) ==
    IF current >= Len(array) THEN Value("Err", NotFound(index))
    ELSE IF current = index THEN Value("Ok", Ref(array, current))
    ELSE get_loop(array, index, current + 1)

\* A mutant of get: the count starts at 1.
get_from_one(array, index) == get_loop(array, index, 1)

\* fn get<A>(array: &[A], index: usize) -> Result<&A, VectorError> {
\*     let mut current: usize = 0; ... }
get(array, index) == get_loop(array, index, 0)

\* A call of one of the functions: its name, the build's overflow checks,
\* its operands, the subtrahends of a chain, the next call of the chain, the
\* number of try_sub calls evaluated, and what it came to.
Call(op, checks, x, y, ys) ==
    [op |-> op, checks |-> checks, x |-> x, y |-> y, ys |-> ys, i |-> 1,
     evals |-> 0, acc |-> x, pc |-> "call", res |-> NoRes, ret |-> "none"]

\* The functions under study are not being called.
Idle == [Call("idle", TRUE, 0, 0, <<>>) EXCEPT !.pc = "done"]

VARIABLES
    pc,          \* pc[n]: where the test function n is (see the actions)
    logic,       \* logic[n]: the block bound to n by runnable!, "none" before
    clock,       \* the monotonic clock read by Instant::now(), in nanoseconds
    start_time,  \* start_time[n]: the local `start_time` of n, NoTime if unset
    end_time,    \* end_time[n]: the local `end_time` of n, NoTime if unset
    out,         \* the lines written to the standard output, in order
    result,      \* result[n]: what the harness recorded for n
    trace,       \* trace[n]: the steps n has taken, each with the clock's value
    build,       \* "ok", or "error" once the compiler rejected the scope
    produced,    \* produced[n]: the value of the block of n, NoValue before
    returned,    \* returned[n]: what fn n returned to the harness, NoValue before
    calc         \* the call of the Num / sum_even_numbers functions under study

vars == <<pc, logic, clock, start_time, end_time, out, result, trace,
          build, produced, returned, calc>>

\* ---- pure helpers ----------------------------------------------------------
\* stringify!($name): the identifier as a string.
stringify(n) == n

\* Instant::duration_since: the time from `earlier` to `later`, zero when
\* `earlier` is the later of the two.
duration_since(later, earlier) ==
    IF later >= earlier THEN later - earlier ELSE 0

\* A mutant of as_millis: rounds to the nearest millisecond.
as_millis_rounded(d) == (d + 500000) \div 1000000

\* Duration::as_millis: the whole milliseconds of a duration in nanoseconds.
as_millis(d) == d \div 1000000

\* A mutant of StartLine: the space before the marker token is missing.
StartLine_no_space(test_name) == test_name \o "[start]"

\* println!("{} [start]", test_name)
StartLine(test_name) == test_name \o " [start]"

\* println!("{} [end]: took {} ms...", test_name, ms)
EndLine(test_name, ms) ==
    test_name \o " [end]: took " \o ToString(ms) \o " ms..."

\* One more step in the history of n.
Step(n, what) ==
    [trace EXCEPT ![n] = Append(@, [step |-> what, at |-> clock])]

\* How often the block of n has been started.
Runs(n) == Cardinality({i \in DOMAIN trace[n] : trace[n][i].step = "logic_begin"})

\* The clock's value when n took its first step named `what` (NoTime if never).
At(n, what) ==
    LET is == {i \in DOMAIN trace[n] : trace[n][i].step = what}
    IN  IF is = {} THEN NoTime
        ELSE trace[n][CHOOSE i \in is : \A j \in is : i <= j].at

\* ---- initial state ---------------------------------------------------------
Init ==
    /\ pc = [n \in Names |-> "unregistered"]
    /\ logic = [n \in Names |-> "none"]
    /\ clock = 0
    /\ start_time = [n \in Names |-> NoTime]
    /\ end_time = [n \in Names |-> NoTime]
    /\ out = <<>>
    /\ result = [n \in Names |-> "none"]
    /\ trace = [n \in Names |-> <<>>]
    /\ build = "ok"
    /\ produced = [n \in Names |-> NoValue]
    /\ returned = [n \in Names |-> NoValue]
    /\ calc = Idle

\* ---- the clock --------------------------------------------------------------
\* Time passes, whatever the tests are doing.
Tick ==
    /\ clock + TickNanos <= MaxClock
    /\ clock' = clock + TickNanos
    /\ UNCHANGED <<calc, build, produced, returned, pc, logic, start_time,
                   end_time, out, result, trace>>

\* ---- registration -----------------------------------------------------------
\* A mutant of Register: the expansion runs the block where it is defined.
Register_running(n, l) ==
    /\ pc[n] = "unregistered"
    /\ pc' = [pc EXCEPT ![n] = "registered"]
    /\ logic' = [logic EXCEPT ![n] = l]
    /\ trace' = Step(n, "logic_begin")
    /\ UNCHANGED <<calc, build, produced, returned, clock, start_time,
                   end_time, out, result>>

\* runnable!(n, l) expands to `#[test] fn n() { ... l ... }`: the function is
\* defined, nothing runs.  A name is defined once in its scope.
Register(n, l) ==
    /\ pc[n] = "unregistered"
    /\ pc' = [pc EXCEPT ![n] = "registered"]
    /\ logic' = [logic EXCEPT ![n] = l]
    /\ UNCHANGED <<calc, build, produced, returned, clock, start_time,
                   end_time, out, result, trace>>

\* A mutant of RegisterDuplicate: the later definition silently replaces the
\* block bound to the name.
RegisterDuplicate_overwrite(n, l) ==
    /\ pc[n] = "registered"
    /\ \A m \in Names : trace[m] = <<>>
    /\ logic' = [logic EXCEPT ![n] = l]
    /\ UNCHANGED <<calc, build, produced, returned, pc, clock, start_time,
                   end_time, out, result, trace>>

\* A second runnable!(n, l) in the scope of the first expands to a second
\* `fn n`: the compiler rejects the scope (the name is defined multiple
\* times), no test binary is built and no test of the scope will run.
RegisterDuplicate(n, l) ==
    /\ pc[n] = "registered"
    /\ \A m \in Names : trace[m] = <<>>
    /\ build' = "error"
    /\ UNCHANGED <<calc, produced, returned, pc, logic, clock, start_time,
                   end_time, out, result, trace>>

\* ---- one invocation ---------------------------------------------------------
\* The harness calls the test function n, at most once in a test run.
Invoke(n) ==
    /\ build = "ok"
    /\ pc[n] = "registered"
    /\ pc' = [pc EXCEPT ![n] = "print_start"]
    /\ trace' = Step(n, "invoke")
    /\ UNCHANGED <<calc, build, produced, returned, logic, clock, start_time,
                   end_time, out, result>>

\* let test_name = stringify!($name); println!("{} [start]", test_name);
PrintStart(n) ==
    /\ pc[n] = "print_start"
    /\ out' = Append(out, StartLine(stringify(n)))
    /\ pc' = [pc EXCEPT ![n] = "take_start"]
    /\ trace' = Step(n, "print_start")
    /\ UNCHANGED <<calc, build, produced, returned, logic, clock, start_time,
                   end_time, result>>

\* A mutant of TakeStart: the timestamp is the time before the start marker
\* was printed.
TakeStart_before_print(n) ==
    /\ pc[n] = "take_start"
    /\ start_time' = [start_time EXCEPT ![n] = At(n, "invoke")]
    /\ pc' = [pc EXCEPT ![n] = "logic"]
    /\ trace' = Step(n, "now_start")
    /\ UNCHANGED <<calc, build, produced, returned, logic, clock, end_time,
                   out, result>>

\* A mutant of TakeStart: the start timestamp is kept in one place shared by
\* all the tests.
TakeStart_shared(n) ==
    /\ pc[n] = "take_start"
    /\ start_time' = [m \in Names |-> clock]
    /\ pc' = [pc EXCEPT ![n] = "logic"]
    /\ trace' = Step(n, "now_start")
    /\ UNCHANGED <<calc, build, produced, returned, logic, clock, end_time,
                   out, result>>

\* let start_time = std::time::Instant::now();
TakeStart(n) ==
    /\ pc[n] = "take_start"
    /\ start_time' = [start_time EXCEPT ![n] = clock]
    /\ pc' = [pc EXCEPT ![n] = "logic"]
    /\ trace' = Step(n, "now_start")
    /\ UNCHANGED <<calc, build, produced, returned, logic, clock, end_time,
                   out, result>>

\* $exp begins.
LogicBegin(n) ==
    /\ pc[n] = "logic"
    /\ pc' = [pc EXCEPT ![n] = "in_logic"]
    /\ trace' = Step(n, "logic_begin")
    /\ UNCHANGED <<calc, build, produced, returned, logic, clock, start_time,
                   end_time, out, result>>

\* A mutant of LogicComplete: the block is run again.
LogicComplete_again(n) ==
    /\ pc[n] = "in_logic"
    /\ logic[n] = "returns"
    /\ pc' = [pc EXCEPT ![n] = IF Runs(n) < 2 THEN "logic" ELSE "take_end"]
    /\ \E v \in BlockValues : produced' = [produced EXCEPT ![n] = v]
    /\ trace' = Step(n, "logic_end")
    /\ UNCHANGED <<calc, build, returned, logic, clock, start_time, end_time,
                   out, result>>

\* $exp completes normally: control reaches the statement after it.
LogicComplete(n) ==
    /\ pc[n] = "in_logic"
    /\ logic[n] = "returns"
    /\ pc' = [pc EXCEPT ![n] = "take_end"]
    /\ \E v \in BlockValues : produced' = [produced EXCEPT ![n] = v]
    /\ trace' = Step(n, "logic_end")
    /\ UNCHANGED <<calc, build, returned, logic, clock, start_time, end_time,
                   out, result>>

\* A mutant of LogicPanic: a watchdog aborts a block that has been running
\* for a millisecond.
LogicPanic_timeout(n) ==
    /\ pc[n] = "in_logic"
    /\ logic[n] = "panics" \/ clock - start_time[n] >= 1000000
    /\ pc' = [pc EXCEPT ![n] = "panicking"]
    /\ trace' = Step(n, "panic")
    /\ UNCHANGED <<calc, build, produced, returned, logic, clock, start_time,
                   end_time, out, result>>

\* $exp panics, at any point of its execution.
LogicPanic(n) ==
    /\ pc[n] = "in_logic"
    /\ logic[n] = "panics"
    /\ pc' = [pc EXCEPT ![n] = "panicking"]
    /\ trace' = Step(n, "panic")
    /\ UNCHANGED <<calc, build, produced, returned, logic, clock, start_time,
                   end_time, out, result>>

\* A mutant of Unwind: the test function catches the panic and goes on.
Unwind_caught(n) ==
    /\ pc[n] = "panicking"
    /\ pc' = [pc EXCEPT ![n] = "take_end"]
    /\ trace' = Step(n, "caught")
    /\ UNCHANGED <<calc, build, produced, returned, logic, clock, start_time,
                   end_time, out, result>>

\* A mutant of Unwind: the panic is swallowed and the test function returns.
Unwind_swallowed(n) ==
    /\ pc[n] = "panicking"
    /\ pc' = [pc EXCEPT ![n] = "completed"]
    /\ result' = [result EXCEPT ![n] = "ok"]
    /\ trace' = Step(n, "return")
    /\ UNCHANGED <<calc, build, produced, returned, logic, clock, start_time,
                   end_time, out>>

\* The panic unwinds through the test function, which has no handler: the
\* rest of its body is skipped and the harness records the failure.
Unwind(n) ==
    /\ pc[n] = "panicking"
    /\ pc' = [pc EXCEPT ![n] = "aborted"]
    /\ result' = [result EXCEPT ![n] = "failed"]
    /\ trace' = Step(n, "unwind")
    /\ UNCHANGED <<calc, build, produced, returned, logic, clock, start_time,
                   end_time, out>>

\* A mutant of TakeEnd: the wrapper goes on only while no test has failed.
TakeEnd_unless_failed(n) ==
    /\ pc[n] = "take_end"
    /\ \A m \in Names : result[m] # "failed"
    /\ end_time' = [end_time EXCEPT ![n] = clock]
    /\ pc' = [pc EXCEPT ![n] = "print_end"]
    /\ trace' = Step(n, "now_end")
    /\ UNCHANGED <<calc, build, produced, returned, logic, clock, start_time,
                   out, result>>

\* A mutant of TakeEnd: the end timestamp is taken once no other test is
\* inside its block.
TakeEnd_waiting(n) ==
    /\ pc[n] = "take_end"
    /\ \A m \in Names \ {n} : pc[m] # "in_logic"
    /\ end_time' = [end_time EXCEPT ![n] = clock]
    /\ pc' = [pc EXCEPT ![n] = "print_end"]
    /\ trace' = Step(n, "now_end")
    /\ UNCHANGED <<calc, build, produced, returned, logic, clock, start_time,
                   out, result>>

\* let end_time = std::time::Instant::now();
TakeEnd(n) ==
    /\ pc[n] = "take_end"
    /\ end_time' = [end_time EXCEPT ![n] = clock]
    /\ pc' = [pc EXCEPT ![n] = "print_end"]
    /\ trace' = Step(n, "now_end")
    /\ UNCHANGED <<calc, build, produced, returned, logic, clock, start_time,
                   out, result>>

\* A mutant of PrintEnd: the end marker is printed twice.
PrintEnd_twice(n) ==
    /\ pc[n] = "print_end"
    /\ LET line == EndLine(stringify(n),
                       as_millis(duration_since(end_time[n], start_time[n])))
       IN  out' = out \o <<line, line>>
    /\ pc' = [pc EXCEPT ![n] = "return"]
    /\ trace' = Step(n, "print_end")
    /\ UNCHANGED <<calc, build, produced, returned, logic, clock, start_time,
                   end_time, result>>

\* println!("{} [end]: took {} ms...", test_name,
\*          end_time.duration_since(start_time).as_millis());
PrintEnd(n) ==
    /\ pc[n] = "print_end"
    /\ out' = Append(out, EndLine(stringify(n),
                  as_millis(duration_since(end_time[n], start_time[n]))))
    /\ pc' = [pc EXCEPT ![n] = "return"]
    /\ trace' = Step(n, "print_end")
    /\ UNCHANGED <<calc, build, produced, returned, logic, clock, start_time,
                   end_time, result>>

\* A mutant of Return: the test function is entered again after it returned.
Return_rerun(n) ==
    /\ pc[n] = "return"
    /\ pc' = [pc EXCEPT ![n] = IF Runs(n) < 2 THEN "registered" ELSE "completed"]
    /\ result' = [result EXCEPT ![n] = "ok"]
    /\ returned' = [returned EXCEPT ![n] = Unit]
    /\ trace' = Step(n, "return")
    /\ UNCHANGED <<calc, build, produced, logic, clock, start_time, end_time,
                   out>>

\* A mutant of Return: the test function returns the elapsed milliseconds.
Return_duration(n) ==
    /\ pc[n] = "return"
    /\ pc' = [pc EXCEPT ![n] = "completed"]
    /\ result' = [result EXCEPT ![n] = "ok"]
    /\ returned' = [returned EXCEPT ![n] =
          ToString(as_millis(duration_since(end_time[n], start_time[n])))]
    /\ trace' = Step(n, "return")
    /\ UNCHANGED <<calc, build, produced, logic, clock, start_time, end_time,
                   out>>

\* The test function returns (): the harness records the success.
Return(n) ==
    /\ pc[n] = "return"
    /\ pc' = [pc EXCEPT ![n] = "completed"]
    /\ result' = [result EXCEPT ![n] = "ok"]
    /\ returned' = [returned EXCEPT ![n] = Unit]
    /\ trace' = Step(n, "return")
    /\ UNCHANGED <<calc, build, produced, logic, clock, start_time, end_time,
                   out>>

Next ==
    \/ Tick
    \/ \E n \in Names, l \in LogicKinds : Register(n, l)
    \/ \E n \in Names, l \in LogicKinds : RegisterDuplicate(n, l)
    \/ \E n \in Names : Invoke(n)
    \/ \E n \in Names : PrintStart(n)
    \/ \E n \in Names : TakeStart(n)
    \/ \E n \in Names : LogicBegin(n)
    \/ \E n \in Names : LogicComplete(n)
    \/ \E n \in Names : LogicPanic(n)
    \/ \E n \in Names : Unwind(n)
    \/ \E n \in Names : TakeEnd(n)
    \/ \E n \in Names : PrintEnd(n)
    \/ \E n \in Names : Return(n)

Spec == Init /\ [][Next]_vars

\* The steps of the thread on which the harness runs fn n.
Thread(n) ==
    \/ PrintStart(n) \/ TakeStart(n) \/ LogicBegin(n)
    \/ LogicComplete(n) \/ LogicPanic(n) \/ Unwind(n)
    \/ TakeEnd(n) \/ PrintEnd(n) \/ Return(n)

\* Every test runs on a thread of its own, which the scheduler does not
\* starve: a thread that can take a step eventually takes one.
FairSpec == Spec /\ \A n \in Names : WF_vars(Thread(n))

\* ---- calls of the functions ----------------------------------------------------
\* The state of the wrapper while the functions are studied on their own.
WrapperIdle ==
    /\ pc = [n \in Names |-> "unregistered"]
    /\ logic = [n \in Names |-> "none"]
    /\ clock = 0
    /\ start_time = [n \in Names |-> NoTime]
    /\ end_time = [n \in Names |-> NoTime]
    /\ out = <<>>
    /\ result = [n \in Names |-> "none"]
    /\ trace = [n \in Names |-> <<>>]
    /\ build = "ok"
    /\ produced = [n \in Names |-> NoValue]
    /\ returned = [n \in Names |-> NoValue]

wrapper_vars ==
    <<pc, logic, clock, start_time, end_time, out, result, trace, build,
      produced, returned>>

\* A call about to be made, with any operands and in either build.
CalcInit ==
    /\ WrapperIdle
    /\ \/ \E op \in {"add", "sub", "try_sub"}, checks \in BOOLEAN,
             x, y \in 0..UsizeMax :
             calc = Call(op, checks, x, y, <<>>)
       \/ \E checks \in BOOLEAN, x \in 0..ChainMax,
             ys \in [1..3 -> 0..ChainMax] :
             calc = Call("chain", checks, x, 0, ys)
       \/ \E checks \in BOOLEAN, x, y \in 0..U8Max :
             calc = Call("sum_even_numbers", checks, x, y, <<>>)
       \/ \E op \in {"sum5_even_option", "sum5_even_result"}, checks \in BOOLEAN,
             x \in Sum5Operands, ys \in [1..4 -> Sum5Operands] :
             calc = Call(op, checks, x, 0, ys)
       \/ \E checks \in BOOLEAN, array \in Arrays, index \in 0..UsizeMax :
             calc = Call("get", checks, index, 0, array)
       \/ \E checks \in BOOLEAN, array \in Arrays :
             calc = Call("head", checks, 0, 0, array)

\* x.add(&y)
CallAdd ==
    /\ calc.op = "add" /\ calc.pc = "call"
    /\ calc' = [calc EXCEPT !.res = add(calc.x, calc.y, calc.checks),
                            !.pc = "done"]
    /\ UNCHANGED wrapper_vars

\* x.sub(&y)
CallSub ==
    /\ calc.op = "sub" /\ calc.pc = "call"
    /\ calc' = [calc EXCEPT !.res = sub(calc.x, calc.y, calc.checks),
                            !.pc = "done"]
    /\ UNCHANGED wrapper_vars

\* x.try_sub(&y)
CallTrySub ==
    /\ calc.op = "try_sub" /\ calc.pc = "call"
    /\ calc' = [calc EXCEPT !.res = try_sub(calc.x, calc.y),
                            !.evals = @ + 1, !.pc = "done"]
    /\ UNCHANGED wrapper_vars

\* A mutant of ChainStep: an Err does not stop the chain, the next call goes
\* on from the last difference.
ChainStep_no_stop ==
    /\ calc.op = "chain" /\ calc.pc = "call"
    /\ LET r == try_sub(calc.acc, calc.ys[calc.i])
           last == calc.i = 3
       IN  calc' = [calc EXCEPT
                      !.evals = @ + 1,
                      !.res = r,
                      !.acc = IF r.tag = "Ok" THEN r.val ELSE @,
                      !.i = IF last THEN @ ELSE @ + 1,
                      !.pc = IF last THEN "done" ELSE "call",
                      !.ret = IF ~last THEN "none"
                              ELSE IF r.tag = "Err" THEN "Ok" ELSE "Err"]
    /\ UNCHANGED wrapper_vars

\* One call of Num(x).try_sub(&ys[1])?.try_sub(&ys[2])?.try_sub(&ys[3])
\*     .map_or_else(|err| Ok(()), |ok| Err(())):
\* `?` after the first two calls returns the Err from the test function; the
\* result of the third goes to map_or_else.
ChainStep ==
    /\ calc.op = "chain" /\ calc.pc = "call"
    /\ LET r == try_sub(calc.acc, calc.ys[calc.i])
           last == calc.i = 3
           stop == last \/ r.tag = "Err"
       IN  calc' = [calc EXCEPT
                      !.evals = @ + 1,
                      !.res = r,
                      !.acc = IF r.tag = "Ok" THEN r.val ELSE @,
                      !.i = IF stop THEN @ ELSE @ + 1,
                      !.pc = IF stop THEN "done" ELSE "call",
                      !.ret = IF ~stop THEN "none"
                              ELSE IF ~last THEN "Err"
                              ELSE IF r.tag = "Err" THEN "Ok" ELSE "Err"]
    /\ UNCHANGED wrapper_vars

\* sum_even_numbers(x, y)
CallSumEven ==
    /\ calc.op = "sum_even_numbers" /\ calc.pc = "call"
    /\ calc' = [calc EXCEPT
                   !.res = sum_even_numbers(calc.x, calc.y, calc.checks),
                   !.pc = "done"]
    /\ UNCHANGED wrapper_vars

\* One sum of sum5_even(x, y, z, v, w): x.sum(y), then s.sum(z)?.sum(v)?.sum(w).
\* `?` after each of the first three sums returns the None / Err from
\* sum5_even; the fourth sum is the value of the function; a panic unwinds.
Sum5Step ==
    /\ calc.op \in {"sum5_even_option", "sum5_even_result"} /\ calc.pc = "call"
    /\ LET r == sum(calc.op, calc.acc, calc.ys[calc.i], calc.checks)
           last == calc.i = 4
           stop == last \/ r.tag \notin {"Some", "Ok"}
       IN  calc' = [calc EXCEPT
                      !.evals = @ + 1,
                      !.res = r,
                      !.acc = IF r.tag \in {"Some", "Ok"} THEN r.val ELSE @,
                      !.i = IF stop THEN @ ELSE @ + 1,
                      !.pc = IF stop THEN "done" ELSE "call"]
    /\ UNCHANGED wrapper_vars

\* get(array, index)
CallGet ==
    /\ calc.op = "get" /\ calc.pc = "call"
    /\ calc' = [calc EXCEPT !.res = get(calc.ys, calc.x), !.pc = "done"]
    /\ UNCHANGED wrapper_vars

\* head(array)
CallHead ==
    /\ calc.op = "head" /\ calc.pc = "call"
    /\ calc' = [calc EXCEPT !.res = head(calc.ys), !.pc = "done"]
    /\ UNCHANGED wrapper_vars

CalcNext ==
    \/ CallAdd
    \/ CallSub
    \/ CallTrySub
    \/ ChainStep
    \/ CallSumEven
    \/ Sum5Step
    \/ CallGet
    \/ CallHead

CalcSpec == CalcInit /\ [][CalcNext]_vars

\* ---- the loops of infinite_loop (expressions.rs) and while_let ------------------
\* ---- (pattern_matching.rs) ---------------------------------------------------
\* `if i == 99 { break; }` and `if i == 10 { option = None; }`
ExitAt == 99
LastSome == 10

\* The loops of while_let are started from Some(n), n in 0 .. StartMax (the
\* example has n = 0).
StartMax == 12

Some(v) == Value("Some", v)
None == Value("None", 0)

\* {:?} of an Option<u8>
DebugOption(o) ==
    IF o.tag = "None" THEN "None" ELSE "Some(" \o ToString(o.val) \o ")"

\* A block about to run: its name, the build's overflow checks, the value
\* the loops of while_let start from, the local i, the local `option`, where
\* the block is, the lines it printed, the values of i the exit check was
\* evaluated on, the values `option` took in the first and in the second loop
\* of while_let, and the value of the loop expression.
Block(op, checks, n, start) ==
    [op |-> op, checks |-> checks, n |-> n, i |-> 0, option |-> Some(n),
     pc |-> start, printed |-> <<>>, checked |-> {}, first |-> <<Some(n)>>,
     second |-> <<>>, result |-> NoValue]

LoopInit ==
    /\ WrapperIdle
    /\ \/ \E checks \in BOOLEAN :
             calc = Block("infinite_loop", checks, 0, "print")
       \/ \E checks \in BOOLEAN, n \in 0..StartMax :
             calc = Block("while_let", checks, n, "loop_match")

\* println!("{}", i);
LoopPrint ==
    /\ calc.op = "infinite_loop" /\ calc.pc = "print"
    /\ calc' = [calc EXCEPT !.printed = Append(@, ToString(calc.i)),
                            !.pc = "incr"]
    /\ UNCHANGED wrapper_vars

\* i += 1;
LoopIncr ==
    /\ calc.op = "infinite_loop" /\ calc.pc = "incr"
    /\ LET r == checked_arith_add(calc.i, 1, U8Max, calc.checks)
       IN  calc' = IF r.tag = "panic" THEN [calc EXCEPT !.pc = "panicked"]
                   ELSE [calc EXCEPT !.i = r.val, !.pc = "continue_check"]
    /\ UNCHANGED wrapper_vars

\* if i % 2 == 0 { continue; }
LoopContinue ==
    /\ calc.op = "infinite_loop" /\ calc.pc = "continue_check"
    /\ calc' = [calc EXCEPT !.pc = IF calc.i % 2 = 0 THEN "print"
                                   ELSE "exit_check"]
    /\ UNCHANGED wrapper_vars

\* A mutant of LoopExit: the loop is left at 100.
LoopExit_even ==
    /\ calc.op = "infinite_loop" /\ calc.pc = "exit_check"
    /\ calc' = [calc EXCEPT
                   !.checked = @ \cup {calc.i},
                   !.result = IF calc.i = ExitAt + 1 THEN Unit ELSE @,
                   !.pc = IF calc.i = ExitAt + 1 THEN "print_result" ELSE "print"]
    /\ UNCHANGED wrapper_vars

\* if i == 99 { break; }: the loop expression has the value ().
LoopExit ==
    /\ calc.op = "infinite_loop" /\ calc.pc = "exit_check"
    /\ calc' = [calc EXCEPT
                   !.checked = @ \cup {calc.i},
                   !.result = IF calc.i = ExitAt THEN Unit ELSE @,
                   !.pc = IF calc.i = ExitAt THEN "print_result" ELSE "print"]
    /\ UNCHANGED wrapper_vars

\* println!("result: {:?}", result);
LoopPrintResult ==
    /\ calc.op = "infinite_loop" /\ calc.pc = "print_result"
    /\ calc' = [calc EXCEPT !.printed = Append(@, "result: " \o calc.result),
                            !.pc = "done"]
    /\ UNCHANGED wrapper_vars

\* if i == 10 { option = None; } else { option = Some(i + 1); }
\* on option = Some(i): the next value of `option`, or the panic of i + 1.
Advance(option, checks) ==
    IF option.val = LastSome THEN None
    ELSE LET r == checked_arith_add(option.val, 1, U8Max, checks)
         IN  IF r.tag = "panic" THEN r ELSE Some(r.val)

\* loop { match option { Some(i) => ..., None => break, } }
LoopMatch ==
    /\ calc.op = "while_let" /\ calc.pc = "loop_match"
    /\ calc' = IF calc.option.tag = "None"
               THEN [calc EXCEPT !.pc = "print_loop"]
               ELSE LET o == Advance(calc.option, calc.checks)
                    IN  IF o.tag = "panic" THEN [calc EXCEPT !.pc = "panicked"]
                        ELSE [calc EXCEPT !.option = o,
                                          !.first = Append(@, o)]
    /\ UNCHANGED wrapper_vars

\* println!("loop_pattern_matching: {:?}", option);
PrintLoop ==
    /\ calc.op = "while_let" /\ calc.pc = "print_loop"
    /\ calc' = [calc EXCEPT
                   !.printed = Append(@, "loop_pattern_matching: "
                                         \o DebugOption(calc.option)),
                   !.pc = "let_option"]
    /\ UNCHANGED wrapper_vars

\* let mut option: Option<u8> = Some(n);   (the second one)
LetOption ==
    /\ calc.op = "while_let" /\ calc.pc = "let_option"
    /\ calc' = [calc EXCEPT !.option = Some(calc.n),
                            !.second = <<Some(calc.n)>>,
                            !.pc = "while_let"]
    /\ UNCHANGED wrapper_vars

\* A mutant of WhileLet: the second loop ends one value earlier.
WhileLet_early ==
    /\ calc.op = "while_let" /\ calc.pc = "while_let"
    /\ calc' = IF calc.option.tag = "None"
               THEN [calc EXCEPT !.pc = "print_while"]
               ELSE LET o == IF calc.option.val = LastSome - 1 THEN None
                             ELSE Advance(calc.option, calc.checks)
                    IN  IF o.tag = "panic" THEN [calc EXCEPT !.pc = "panicked"]
                        ELSE [calc EXCEPT !.option = o,
                                          !.second = Append(@, o)]
    /\ UNCHANGED wrapper_vars

\* while let Some(i) = option { ... }
WhileLet ==
    /\ calc.op = "while_let" /\ calc.pc = "while_let"
    /\ calc' = IF calc.option.tag = "None"
               THEN [calc EXCEPT !.pc = "print_while"]
               ELSE LET o == Advance(calc.option, calc.checks)
                    IN  IF o.tag = "panic" THEN [calc EXCEPT !.pc = "panicked"]
                        ELSE [calc EXCEPT !.option = o,
                                          !.second = Append(@, o)]
    /\ UNCHANGED wrapper_vars

\* println!("while_let: {:?}", option);
PrintWhile ==
    /\ calc.op = "while_let" /\ calc.pc = "print_while"
    /\ calc' = [calc EXCEPT
                   !.printed = Append(@, "while_let: " \o DebugOption(calc.option)),
                   !.pc = "done"]
    /\ UNCHANGED wrapper_vars

LoopNext ==
    \/ LoopPrint
    \/ LoopIncr
    \/ LoopContinue
    \/ LoopExit
    \/ LoopPrintResult
    \/ LoopMatch
    \/ PrintLoop
    \/ LetOption
    \/ WhileLet
    \/ PrintWhile

LoopSpec == LoopInit /\ [][LoopNext]_vars

\* A block is one thread of control: it goes on as long as it has a next
\* statement.
FairLoopSpec == LoopSpec /\ WF_vars(LoopNext)

\* ---- vocabulary of the properties -------------------------------------------
\* The durations an end marker can report within the bounds.
MsRange == 0 .. (MaxClock \div 1000000 + 1)

\* The end lines and the marker lines a test named n can write.
EndLinesOf == [n \in Names |-> {EndLine(stringify(n), ms) : ms \in MsRange}]
EndLines(n) == EndLinesOf[n]
MarkerLinesOf == [n \in Names |-> {StartLine(stringify(n))} \cup EndLinesOf[n]]
MarkerLines(n) == MarkerLinesOf[n]

\* The lines of the output that are markers of n, in the order of the output.
Own(n) == SelectSeq(out, LAMBDA line : line \in MarkerLines(n))

\* The names of the steps n has taken, in order.
StepNames(n) == [i \in DOMAIN trace[n] |-> trace[n][i].step]

Took(n, what) == \E i \in DOMAIN trace[n] : trace[n][i].step = what

IsPrefix(s, t) == Len(s) <= Len(t) /\ \A i \in DOMAIN s : s[i] = t[i]

NormalOrder ==
    <<"invoke", "print_start", "now_start", "logic_begin", "logic_end",
      "now_end", "print_end", "return">>
PanicOrder ==
    <<"invoke", "print_start", "now_start", "logic_begin", "panic", "unwind">>

Terminal(n) == pc[n] \in {"completed", "aborted"}

\* The lifecycle of a test case: Running begins with the block, Completed
\* and Aborted are the two ends.
Phase(n) ==
    CASE pc[n] = "unregistered" -> "Unregistered"
      [] pc[n] \in {"registered", "print_start", "take_start", "logic"}
            -> "Registered"
      [] pc[n] \in {"in_logic", "panicking", "take_end", "print_end", "return"}
            -> "Running"
      [] pc[n] = "completed" -> "Completed"
      [] pc[n] = "aborted" -> "Aborted"

\* ---- C1 ----------------------------------------------------------------------
\* C1: an invocation whose block completes normally has written exactly two
\* marker lines of its own once it has returned: the start line with its name,
\* then an end line with the same name and a non-negative whole number of
\* milliseconds; and no invocation ever has more than these two.
C1_TwoMarkersInOrder ==
    \A n \in Names :
        /\ Len(Own(n)) <= 2
        /\ pc[n] = "completed" =>
              /\ Len(Own(n)) = 2
              /\ Own(n)[1] = StartLine(stringify(n))
              /\ \E ms \in MsRange : ms >= 0 /\ Own(n)[2] = EndLine(stringify(n), ms)

C1_Witness ==
    \E n \in Names :
        pc[n] = "completed" /\ logic[n] = "returns" /\ Len(Own(n)) = 2

\* ---- C2 ----------------------------------------------------------------------
\* C2: once the block of an invocation has panicked, in every later state the
\* start line of the invocation is in the output, no end line of it is, no end
\* timestamp has been taken, and the invocation is unwinding or aborted.
C2_PanicNoEndMarker ==
    \A n \in Names :
        Took(n, "panic") =>
            /\ Own(n) = <<StartLine(stringify(n))>>
            /\ \A i \in DOMAIN out : out[i] \notin EndLines(n)
            /\ end_time[n] = NoTime
            /\ ~Took(n, "now_end")
            /\ pc[n] \in {"panicking", "aborted"}

C2_Witness ==
    \E n \in Names :
        /\ pc[n] = "aborted"
        /\ logic[n] = "panics"
        /\ StartLine(n) \in {out[i] : i \in DOMAIN out}

\* ---- C3 ----------------------------------------------------------------------
\* C3: an invocation whose block panicked is never recorded as a success, and
\* when it has ended it is recorded as failed; a success is recorded only for
\* an invocation whose block did not panic.
C3_FailurePropagates ==
    \A n \in Names :
        /\ Took(n, "panic") => result[n] # "ok"
        /\ (Took(n, "panic") /\ Terminal(n)) =>
              (pc[n] = "aborted" /\ result[n] = "failed")
        /\ result[n] = "ok" => ~Took(n, "panic")

C3_Witness ==
    \E n \in Names : Took(n, "panic") /\ result[n] = "failed"

\* ---- C4 ----------------------------------------------------------------------
\* C4: the block of a test is started at most once; it has been started
\* exactly once when the invocation has ended, and it is never started again
\* after it completed or panicked.
C4_LogicRunsOnce ==
    \A n \in Names :
        /\ Runs(n) <= 1
        /\ Terminal(n) => Runs(n) = 1
        /\ (Took(n, "logic_end") \/ Took(n, "panic")) =>
              (Runs(n) = 1 /\ pc[n] \notin {"logic", "in_logic"})

C4_Witness ==
    \E n, m \in Names :
        /\ pc[n] = "completed" /\ Runs(n) = 1
        /\ pc[m] = "aborted" /\ Runs(m) = 1

\* ---- C5 ----------------------------------------------------------------------
\* C5: the steps of an invocation are taken in the order start marker, start
\* timestamp, block, end timestamp, end marker; the interval between the two
\* timestamps begins no earlier than the end of the printing of the start
\* marker, ends when the printing of the end marker begins, and contains the
\* whole run of the block.
C5_StepOrder ==
    \A n \in Names :
        /\ \/ IsPrefix(StepNames(n), NormalOrder)
           \/ IsPrefix(StepNames(n), PanicOrder)
        /\ Took(n, "now_start") =>
              /\ At(n, "print_start") <= start_time[n]
              /\ start_time[n] = At(n, "now_start")
        /\ Took(n, "logic_begin") => start_time[n] <= At(n, "logic_begin")
        /\ Took(n, "now_end") =>
              /\ At(n, "logic_end") <= end_time[n]
              /\ end_time[n] = At(n, "now_end")
        /\ Took(n, "print_end") =>
              /\ end_time[n] <= At(n, "print_end")
              /\ end_time[n] - start_time[n]
                    <= At(n, "print_end") - At(n, "print_start")
              /\ At(n, "logic_end") - At(n, "logic_begin")
                    <= end_time[n] - start_time[n]

\* The printing of the start marker took time, and the invocation went on to
\* print its end marker.
C5_Witness ==
    \E n \in Names :
        /\ Took(n, "print_end")
        /\ At(n, "invoke") < At(n, "print_start")
        /\ At(n, "now_end") < At(n, "print_end")

\* ---- C6 ----------------------------------------------------------------------
\* C6: the duration in the end marker is the difference of the end and the
\* start timestamp in whole milliseconds, rounded down; it is not negative,
\* and it is at least d whenever the block ran for at least d milliseconds.
C6_DurationTruncated ==
    \A n \in Names :
        Took(n, "print_end") =>
            LET elapsed == end_time[n] - start_time[n]
                ms == elapsed \div 1000000
                ran == At(n, "logic_end") - At(n, "logic_begin")
            IN  /\ elapsed >= 0
                /\ ms * 1000000 <= elapsed
                /\ elapsed < (ms + 1) * 1000000
                /\ ms >= 0
                /\ Own(n) = <<StartLine(n), EndLine(n, ms)>>
                /\ \A d \in MsRange : ran >= d * 1000000 => ms >= d

\* A block that ran for a millisecond, reported as 1 ms.
C6_Witness ==
    \E n \in Names :
        /\ Took(n, "print_end")
        /\ At(n, "logic_end") - At(n, "logic_begin") >= 1000000
        /\ Own(n)[2] = EndLine(n, 1)

\* ---- C7 ----------------------------------------------------------------------
\* C7: a registration changes nothing but the registry: it writes no output,
\* takes no step of the wrapper and starts no block; a test that has not been
\* invoked has run nothing and printed nothing, and whatever has run or
\* printed belongs to an invoked test.
C7_RegisterOnlyRegisters ==
    [][\A n \in Names :
          /\ (pc[n] = "unregistered" /\ pc'[n] = "registered") =>
                /\ out' = out
                /\ trace' = trace
                /\ clock' = clock
                /\ result' = result
                /\ start_time' = start_time /\ end_time' = end_time
          /\ pc'[n] \in {"unregistered", "registered"} =>
                /\ trace'[n] = <<>>
                /\ \A i \in DOMAIN out' : out'[i] \notin MarkerLines(n)
          /\ (trace'[n] # <<>>) => trace'[n][1].step = "invoke"
      ]_vars

\* A test is registered and not invoked while another has printed.
C7_Witness ==
    \E n, m \in Names :
        /\ pc[n] = "registered" /\ logic[n] = "returns"
        /\ Len(Own(m)) > 0

\* ---- C8 ----------------------------------------------------------------------
\* C8: the phase of a test case changes only from Registered to Running and
\* from Running to Completed or to Aborted (and to Registered by the
\* registration); nothing leaves Completed or Aborted; Completed is entered
\* with the end marker in the output.
LifecycleEdges ==
    {<<"Unregistered", "Registered">>, <<"Registered", "Running">>,
     <<"Running", "Completed">>, <<"Running", "Aborted">>}

C8_Lifecycle ==
    [][\A n \in Names :
          /\ Phase(n)' # Phase(n) => <<Phase(n), Phase(n)'>> \in LifecycleEdges
          /\ Terminal(n) => pc'[n] = pc[n]
          /\ Phase(n)' = "Completed" =>
                \E i \in DOMAIN out' : out'[i] \in EndLines(n)
          /\ Phase(n)' = "Aborted" =>
                \A i \in DOMAIN out' : out'[i] \notin EndLines(n)
      ]_vars

C8_Witness ==
    \E n, m \in Names :
        /\ Phase(n) = "Completed" /\ result[n] = "ok"
        /\ Phase(m) = "Aborted" /\ result[m] = "failed"

\* ---- C9 ----------------------------------------------------------------------
\* C9: every line of the output is a whole marker line of exactly one test,
\* each test has at most one start and one end line in it, and the duration
\* in the end line of a test is computed from the two timestamps that this
\* test took itself, whatever the other tests did in between.
C9_NoInterference ==
    /\ \A i \in DOMAIN out :
          Cardinality({n \in Names : out[i] \in MarkerLines(n)}) = 1
    /\ \A n \in Names :
          /\ Len(Own(n)) <= 2
          /\ Took(n, "now_start") => start_time[n] = At(n, "now_start")
          /\ ~Took(n, "now_start") => start_time[n] = NoTime
          /\ Took(n, "now_end") => end_time[n] = At(n, "now_end")
          /\ ~Took(n, "now_end") => end_time[n] = NoTime
          /\ Took(n, "print_end") =>
                Own(n)[2] = EndLine(n, as_millis(duration_since(
                                At(n, "now_end"), At(n, "now_start"))))

\* Two invocations overlap: both start lines come before both end lines, and
\* the two report different durations.
C9_Witness ==
    \E n, m \in Names :
        /\ n # m
        /\ Len(out) = 4
        /\ out[1] = StartLine(n) /\ out[2] = StartLine(m)
        /\ out[3] \in EndLines(m) /\ out[4] \in EndLines(n)
        /\ end_time[n] - start_time[n] >= 1000000
        /\ end_time[m] - start_time[m] < 1000000

\* ---- C10 ---------------------------------------------------------------------
\* C10: an invoked test that is not inside its block can take its next step
\* in every reachable state, whatever the other tests are doing.
C10_NoWaiting ==
    \A n \in Names :
        /\ pc[n] = "print_start" => ENABLED PrintStart(n)
        /\ pc[n] = "take_start" => ENABLED TakeStart(n)
        /\ pc[n] = "logic" => ENABLED LogicBegin(n)
        /\ pc[n] = "panicking" => ENABLED Unwind(n)
        /\ pc[n] = "take_end" => ENABLED TakeEnd(n)
        /\ pc[n] = "print_end" => ENABLED PrintEnd(n)
        /\ pc[n] = "return" => ENABLED Return(n)

\* The block of a test has finished while another test is inside a block
\* that never ends.
C10_Witness ==
    \E n, m \in Names :
        /\ pc[n] = "take_end"
        /\ pc[m] = "in_logic" /\ logic[m] = "diverges"

\* ---- C11 ---------------------------------------------------------------------
\* C11: under fair scheduling of the test threads, every invoked test whose
\* block terminates (returns or panics) eventually reaches Completed or
\* Aborted, whatever the other tests do and whether or not one of them has
\* already aborted.
C11_OthersStillRun ==
    \A n \in Names :
        (Took(n, "invoke") /\ logic[n] \in {"returns", "panics"})
            ~> Terminal(n)

\* A test was invoked after another one had aborted, and completed.
C11_Witness ==
    \E n, m \in Names :
        /\ pc[m] = "aborted"
        /\ pc[n] = "completed"
        /\ At(m, "unwind") < At(n, "invoke")

\* ---- C12 ---------------------------------------------------------------------
\* C12: a test inside a block that never terminates stays inside it at every
\* step, however much time passes: no step takes it out of Running, takes an
\* end timestamp, writes its end marker or records a result for it.
C12_NoTimeout ==
    [][\A n \in Names :
          /\ (logic[n] = "diverges" /\ pc[n] = "in_logic") =>
                /\ pc'[n] = "in_logic"
                /\ trace'[n] = trace[n]
          /\ logic'[n] = "diverges" =>
                /\ pc'[n] \in {"registered", "print_start", "take_start",
                               "logic", "in_logic"}
                /\ end_time'[n] = NoTime
                /\ result'[n] = "none"
                /\ \A i \in DOMAIN out' : out'[i] \notin EndLines(n)
      ]_vars

\* A block that never ends has been running for as long as the clock goes,
\* while the other test ran to its end.
C12_Witness ==
    \E n, m \in Names :
        /\ logic[n] = "diverges" /\ pc[n] = "in_logic"
        /\ clock - At(n, "logic_begin") >= 1000000
        /\ pc[m] = "completed"

C14_NoSilentOverwrite ==
    [][/\ \A n \in Names :
             /\ logic[n] # "none" => logic'[n] = logic[n]
             /\ pc[n] # "unregistered" => pc'[n] # "unregistered"
             /\ (logic[n] = "none") <=> (pc[n] = "unregistered")
       /\ build' # build =>
             /\ build = "ok" /\ build' = "error"
             /\ logic' = logic /\ pc' = pc /\ out' = out /\ trace' = trace
       /\ build = "error" =>
             /\ build' = "error"
             /\ \A n \in Names : trace'[n] = <<>>
      ]_vars

\* A name was registered twice: the build failed and the first block is
\* still the one bound to the name.
C14_Witness ==
    \E n \in Names :
        /\ build = "error"
        /\ pc[n] = "registered" /\ logic[n] = "panics"

\* ---- C15 ---------------------------------------------------------------------
\* The lines as the console format gives them, written out for the names and
\* the durations within the bounds.
ConsoleStart ==
    [n \in Names |-> CASE n = "alpha" -> "alpha [start]"
                       [] n = "beta" -> "beta [start]"]
ConsoleEnd ==
    [n \in Names |->
        CASE n = "alpha" -> <<"alpha [end]: took 0 ms...",
                              "alpha [end]: took 1 ms...",
                              "alpha [end]: took 2 ms...">>
          [] n = "beta" -> <<"beta [end]: took 0 ms...",
                             "beta [end]: took 1 ms...",
                             "beta [end]: took 2 ms...">>]
ConsoleLines ==
    UNION {{ConsoleStart[n]} \cup {ConsoleEnd[n][i] : i \in 1..3} : n \in Names}

\* C15: the output consists of lines of the console format only; the start
\* line of the test registered as N is "N [start]" and its end line is
\* "N [end]: took M ms..." with the same N and M the whole milliseconds
\* between its two timestamps.
C15_ExactFormat ==
    /\ \A i \in DOMAIN out : out[i] \in ConsoleLines
    /\ \A n \in Names :
          /\ Took(n, "print_start") =>
                \E i \in DOMAIN out : out[i] = ConsoleStart[n]
          /\ Took(n, "print_end") =>
                LET M == (end_time[n] - start_time[n]) \div 1000000
                IN  \E i, j \in DOMAIN out :
                        /\ i < j
                        /\ out[i] = ConsoleStart[n]
                        /\ out[j] = ConsoleEnd[n][M + 1]

C15_Witness ==
    \E i, j \in DOMAIN out :
        /\ out[i] = "beta [start]"
        /\ out[j] = "beta [end]: took 1 ms..."

\* ---- C16 ---------------------------------------------------------------------
\* C16 as claimed: for all Num values x and y, x.add(&y) returns
\* Num(x.0 + y.0), which differs from x when y is not zero and from y when x
\* is not zero, and leaves x and y as they were.
C16_AddAlwaysSum ==
    [][(calc.op = "add" /\ calc.pc = "call") =>
          /\ calc'.res = Value("Num", calc.x + calc.y)
          /\ calc.y # 0 => calc'.res.val # calc.x
          /\ calc.x # 0 => calc'.res.val # calc.y
          /\ calc'.x = calc.x /\ calc'.y = calc.y
      ]_vars

\* C16 as amended: the same for all x and y whose sum does not exceed the
\* greatest usize.
C16_AddSumInRange ==
    [][(calc.op = "add" /\ calc.pc = "call"
            /\ calc.x + calc.y <= UsizeMax) =>
          /\ calc'.res = Value("Num", calc.x + calc.y)
          /\ calc.y # 0 => calc'.res.val # calc.x
          /\ calc.x # 0 => calc'.res.val # calc.y
          /\ calc'.x = calc.x /\ calc'.y = calc.y
      ]_vars

\* test_add: Num(5).add(&Num(3)) is Num(8).
C16_Witness ==
    /\ calc.op = "add" /\ calc.pc = "done"
    /\ calc.x = 5 /\ calc.y = 3
    /\ calc.res = Value("Num", 8)

\* ---- C17 ---------------------------------------------------------------------
\* C17: for all x and y with y.0 <= x.0, x.sub(&y) returns Num(x.0 - y.0),
\* in either build, and leaves x and y as they were.
C17_SubInRange ==
    [][(calc.op = "sub" /\ calc.pc = "call" /\ calc.y <= calc.x) =>
          /\ calc'.res = Value("Num", calc.x - calc.y)
          /\ calc'.x = calc.x /\ calc'.y = calc.y
      ]_vars

\* test_sub: Num(5).sub(&Num(3)) is Num(2).
C17_Witness ==
    /\ calc.op = "sub" /\ calc.pc = "done"
    /\ calc.x = 5 /\ calc.y = 3
    /\ calc.res = Value("Num", 2)

\* ---- C18 ---------------------------------------------------------------------
\* C18: for all x and y with y.0 > x.0, x.sub(&y) returns no value: it panics
\* with "attempt to subtract with overflow".
C18_SubOverflowPanics ==
    (calc.op = "sub" /\ calc.pc = "done" /\ calc.y > calc.x) =>
        calc.res = Panic("attempt to subtract with overflow")

\* ---- C19 ---------------------------------------------------------------------
\* The difference after the first k subtractions of the chain.
RunningDiff(k) ==
    LET Sum[j \in 0..3] == IF j = 0 THEN 0 ELSE Sum[j - 1] + calc.ys[j]
    IN  calc.x - Sum[k]

\* The calls of the chain whose running difference is negative.
Failing == {k \in 1..3 : RunningDiff(k) < 0}

\* C19: try_sub never panics and is Ok(Num(x.0 - y.0)) when y.0 <= x.0 and
\* Err(()) otherwise; the chain never panics, ends in Ok exactly when no
\* running difference is negative, then with the last difference after three
\* calls, and otherwise ends in Err at the first call whose running
\* difference is negative, having evaluated no call after it; 5 - 3 - 1 - 5
\* ends in Err at the third call.
C19_TrySubChain ==
    /\ calc.op \in {"try_sub", "chain"} => calc.res.tag # "panic"
    /\ (calc.op = "try_sub" /\ calc.pc = "done") =>
          calc.res = IF calc.y <= calc.x THEN Value("Ok", calc.x - calc.y)
                     ELSE Value("Err", 0)
    /\ calc.op = "chain" =>
          /\ calc.evals <= 3
          /\ \A k \in Failing : calc.evals <= k
          /\ calc.pc = "done" =>
                /\ calc.res.tag = "Ok" <=> Failing = {}
                /\ Failing = {} =>
                      (calc.res = Value("Ok", RunningDiff(3)) /\ calc.evals = 3)
                /\ Failing # {} =>
                      /\ calc.res = Value("Err", 0)
                      /\ calc.evals \in Failing
                /\ (calc.x = 5 /\ calc.ys = <<3, 1, 5>>) =>
                      (calc.res.tag = "Err" /\ calc.evals = 3 /\ calc.ret = "Ok")

\* test_sub_chain_overflow: 5 - 3 - 1 - 5 ended in Err at the third call.
C19_Witness ==
    /\ calc.op = "chain" /\ calc.pc = "done"
    /\ calc.x = 5 /\ calc.ys = <<3, 1, 5>>
    /\ calc.res.tag = "Err" /\ calc.evals = 3

\* ---- C20 ---------------------------------------------------------------------
\* C20: for all u8 x and y, sum_even_numbers(x, y) is Some(x + y) when both
\* are even and None otherwise, and never panics.
C20_SumEvenNeverPanics ==
    (calc.op = "sum_even_numbers" /\ calc.pc = "done") =>
        /\ calc.res.tag # "panic"
        /\ calc.res = IF calc.x % 2 = 0 /\ calc.y % 2 = 0
                      THEN Value("Some", calc.x + calc.y)
                      ELSE Value("None", 0)

\* ---- C21 ---------------------------------------------------------------------
\* The value sum5_even holds before its k-th sum, as a number.
Sum5Before(k) ==
    LET Sum[j \in 0..4] == IF j = 0 THEN calc.x ELSE Sum[j - 1] + calc.ys[j]
    IN  Sum[k - 1]

\* The sums of sum5_even with an operand that is not even.
Sum5Odd == {k \in 1..4 : Sum5Before(k) % 2 # 0 \/ calc.ys[k] % 2 # 0}

\* The first of them.
Sum5First == CHOOSE k \in Sum5Odd : \A j \in Sum5Odd : k <= j

\* What the k-th sum comes to when it fails.
Sum5Failure(k) ==
    IF calc.op = "sum5_even_option" THEN Value("None", 0)
    ELSE ErrMsg("illegal inputs: an input is not even: x="
                \o ToString(Sum5Before(k)) \o " y=" \o ToString(calc.ys[k]))

\* What the claim says of a call of sum5_even that is over.
Sum5Outcome ==
    /\ Sum5Odd = {} =>
          /\ calc.res = Value(IF calc.op = "sum5_even_option" THEN "Some" ELSE "Ok",
                              Sum5Before(5))
          /\ calc.evals = 4
    /\ Sum5Odd # {} =>
          /\ calc.res = Sum5Failure(Sum5First)
          /\ calc.evals = Sum5First
    /\ (calc.x = 0 /\ calc.ys = <<2, 4, 11, 6>>) =>
          (calc.evals = 3 /\ calc.acc = 6 /\ calc.ys[calc.i] = 11)

\* C21: sum5_even(x, y, z, v, w) returns the total when every operand and every
\* intermediate sum is even; otherwise it returns at the first sum with an
\* operand that is not even (None in the Option version, the Err of that sum
\* with its operands in the Result version) and evaluates no later sum; for
\* (0, 2, 4, 11, 6) that is the third sum, 6 with 11.
C21_Sum5Even ==
    (calc.op \in {"sum5_even_option", "sum5_even_result"} /\ calc.pc = "done") =>
        Sum5Outcome

\* The same for the calls none of whose sums goes beyond u8: these come out as
\* the claim says, in either build.
C21_Sum5EvenInRange ==
    (/\ calc.op \in {"sum5_even_option", "sum5_even_result"} /\ calc.pc = "done"
     /\ \A k \in 1..4 : (\A j \in Sum5Odd : k < j) => Sum5Before(k + 1) <= U8Max) =>
        Sum5Outcome

\* sum5_even(0, 2, 4, 11, 6) of the Result version returned the Err of its
\* third sum.
C21_Witness ==
    /\ calc.op = "sum5_even_result" /\ calc.pc = "done"
    /\ calc.x = 0 /\ calc.ys = <<2, 4, 11, 6>>
    /\ calc.res = ErrMsg("illegal inputs: an input is not even: x=6 y=11")

\* ---- C22 ---------------------------------------------------------------------
\* C22: get(a, i) returns Ok of the element at position i when i < len(a) and
\* Err(VectorError::NotFound(i)) otherwise; head(a) returns
\* Err(VectorError::EmptyVector) exactly when a is empty, and on a non-empty
\* array head(a) returns what get(a, 0) returns.
C22_GetHead ==
    /\ (calc.op = "get" /\ calc.pc = "done") =>
          calc.res = IF calc.x < Len(calc.ys)
                     THEN Value("Ok", Ref(calc.ys, calc.x))
                     ELSE Value("Err", NotFound(calc.x))
    /\ (calc.op = "head" /\ calc.pc = "done") =>
          /\ calc.res = Value("Err", EmptyVector) <=> calc.ys = <<>>
          /\ calc.ys # <<>> => calc.res = get(calc.ys, 0)

\* get returned the last element of an array whose first element is equal to
\* it.
C22_Witness ==
    /\ calc.op = "get" /\ calc.pc = "done"
    /\ Len(calc.ys) = MaxLen /\ calc.x = MaxLen - 1
    /\ calc.ys[1] = calc.ys[MaxLen]
    /\ calc.res = Value("Ok", [pos |-> MaxLen - 1, elem |-> calc.ys[MaxLen]])

\* ---- C23 ---------------------------------------------------------------------
\* The values of i the loop of infinite_loop printed so far.
Numbers ==
    IF calc.pc = "done" THEN SubSeq(calc.printed, 1, Len(calc.printed) - 1)
    ELSE calc.printed

\* The loop printed 0, 1, 2, ... in this order, no further than 98; i stays
\* within 0 .. 99 and its increment never overflows; the exit check was
\* evaluated on odd values of i only; the loop is left only with i = 99 and
\* the value (), having printed 0 .. 98.
LoopSafe ==
    calc.op = "infinite_loop" =>
        /\ Len(Numbers) <= ExitAt
        /\ \A k \in 1..Len(Numbers) : Numbers[k] = ToString(k - 1)
        /\ calc.i \in 0..ExitAt /\ calc.i <= U8Max
        /\ calc.pc # "panicked"
        /\ \A v \in calc.checked : v % 2 = 1
        /\ calc.pc \in {"print_result", "done"} =>
              /\ calc.i = ExitAt
              /\ calc.result = Unit
              /\ Len(Numbers) = ExitAt
              /\ calc.checked = {v \in 1..ExitAt : v % 2 = 1}
        /\ calc.pc \notin {"print_result", "done"} => calc.result = NoValue
        /\ calc.pc = "done" =>
              calc.printed[Len(calc.printed)] = "result: ()"

\* C23: the loop of infinite_loop terminates: from i = 0 it prints 0 .. 98 in
\* increasing order, skips the exit check on every even value of i, is left
\* when i reaches 99 with the unit value as its result, and i never overflows
\* u8.
C23_LoopTerminates ==
    /\ []LoopSafe
    /\ (calc.op = "infinite_loop") ~> (calc.op = "infinite_loop" /\ calc.pc = "done")

\* The block is over: the loop was left at i = 99 after 99 lines and the
\* result was printed.
C23_Witness ==
    /\ calc.op = "infinite_loop" /\ calc.pc = "done"
    /\ calc.i = ExitAt /\ Len(calc.printed) = ExitAt + 1
    /\ calc.printed[ExitAt] = "98"
    /\ calc.printed[ExitAt + 1] = "result: ()"

\* ---- C24 ---------------------------------------------------------------------
\* Some(n), Some(n + 1), ..., Some(10), None
OptionValues(n) ==
    [k \in 1..(LastSome - n + 2) |->
        IF k <= LastSome - n + 1 THEN Some(n + k - 1) ELSE None]

\* Started from Some(n) with n <= 10, neither loop panics; the values of
\* `option` in each loop are the first ones of Some(n), ..., Some(10), None,
\* and all of them once the loop is left; the loops are left on None with the
\* same values gone through, and each prints None.
WhileLetSame ==
    (calc.op = "while_let" /\ calc.n <= LastSome) =>
        /\ calc.pc # "panicked"
        /\ IsPrefix(calc.first, OptionValues(calc.n))
        /\ IsPrefix(calc.second, OptionValues(calc.n))
        /\ calc.pc # "loop_match" =>
              calc.first = OptionValues(calc.n)
        /\ calc.pc \in {"print_loop", "print_while", "done"} =>
              calc.option = None
        /\ calc.pc \in {"print_while", "done"} =>
              (calc.second = OptionValues(calc.n) /\ calc.second = calc.first)
        /\ calc.pc = "done" =>
              calc.printed = <<"loop_pattern_matching: None", "while_let: None">>

\* C24: the two forms of while_let are equivalent: started from the same
\* Some(n) with n <= 10, the loop-with-match form and the while-let form go
\* through the same values of `option`, Some(n), Some(n + 1), ..., Some(10),
\* None, and both terminate with option == None.
C24_WhileLetEquivalent ==
    /\ []WhileLetSame
    /\ (calc.op = "while_let" /\ calc.n <= LastSome) ~>
          (calc.op = "while_let" /\ calc.pc = "done")

\* The block of the example is over: from Some(0) both loops went through
\* Some(0), ..., Some(10), None.
C24_Witness ==
    /\ calc.op = "while_let" /\ calc.pc = "done" /\ calc.n = 0
    /\ Len(calc.first) = LastSome + 2 /\ calc.second = calc.first
    /\ calc.first[LastSome + 1] = Some(LastSome)
    /\ calc.option = None

====
